---- MODULE Spec2Model ----
(***************************************************************************)
(* ShuffleBuf<SIZE> (src/src/lib.rs): a fixed-capacity byte queue that     *)
(* compacts the unread window to the start of its array instead of         *)
(* wrapping around.  Rust indices are 0-based and slices half-open; the    *)
(* TLA+ sequences below are 1-based, so Rust buf[i] is buf[i + 1] here.    *)
(* usize arithmetic is modelled with overflow checks on: a subtraction     *)
(* that would underflow, an index or a slice range out of bounds aborts    *)
(* the call (panic) and leaves the object as it was before the call.       *)
(***************************************************************************)
EXTENDS Integers, Sequences, FiniteSets, TLC

\* ---- bounds of the model ------------------------------------------------
MaxCap == 6
MaxLen == 3
MaxOut == 3

\* ---- program constant: the read_idx threshold of read_one ---------------
SHUFFLE_THRESHOLD == 4

\* The u8 values in play.  The code only copies bytes: it never compares,
\* tests or computes with one, so two values are enough to tell any two
\* positions of the buffer apart (a loss, a duplicate or a reordering shows as
\* a difference between a 0 and a 1).  [0; SIZE] makes 0 the initial value.
Byte == {0, 1}
Capacities == 0..MaxCap

RECURSIVE SeqsUpTo(_, _)
SeqsUpTo(S, n) ==
    IF n = 0 THEN {<<>>}
    ELSE LET shorter == SeqsUpTo(S, n - 1)
         IN shorter \cup {Append(s, x) : s \in {t \in shorter : Len(t) = n - 1}, x \in S}

\* the data slices a caller may pass to push_many
DataArgs == SeqsUpTo(Byte, MaxLen)
\* the out_buf slices a caller may pass to read_many (zero-filled, as in the tests)
OutArgs == {[i \in 1..n |-> 0] : n \in 0..MaxOut}

VARIABLES SIZE, buf, read_idx, write_idx, op, ret, val, data, out, panicked, fifo, refused, th

vars == <<SIZE, buf, read_idx, write_idx, op, ret, val, data, out, panicked, fifo, refused, th>>

\* the object the methods act on
self == [buf |-> buf, read_idx |-> read_idx, write_idx |-> write_idx]

\* ---- slices ---------------------------------------------------------------
\* Rust s[a..b]: legal iff a <= b <= len
RangeOk(a, b, len) == a >= 0 /\ a <= b /\ b <= len

\* Rust s[i]: legal iff i < len
IndexOk(i, len) == 0 <= i /\ i < len

Slice(s, a, b) == [i \in 1..(b - a) |-> s[a + i]]

\* dst[at .. at+len(src)].copy_from_slice(src)
CopyFromSlice(dst, at, src) ==
    [i \in 1..Len(dst) |-> IF at < i /\ i <= at + Len(src) THEN src[i - at] ELSE dst[i]]

\* variant: a byte-by-byte copy that starts at the high end (not overlap-safe)
RECURSIVE copy_within_backward(_, _, _, _)
copy_within_backward(b, s, e, dest) ==
    IF e <= s THEN b
    ELSE copy_within_backward([b EXCEPT ![dest + (e - s)] = b[e]], s, e - 1, dest)

\* buf.copy_within(s..e, dest): memmove semantics, overlap-safe
copy_within(b, s, e, dest) ==
    [i \in 1..Len(b) |-> IF dest < i /\ i <= dest + (e - s) THEN b[s + (i - dest)] ELSE b[i]]

\* ---- ShuffleBuf ------------------------------------------------------------
default(n) == [buf |-> [i \in 1..n |-> 0], read_idx |-> 0, write_idx |-> 0]

available(me) == me.write_idx - me.read_idx

\* variant: total free space, capacity - available()
vacant_total(me) == Len(me.buf) - (me.write_idx - me.read_idx)

vacant(me) == Len(me.buf) - me.write_idx

\* variant: the cursors are reset only inside the avail > 0 branch
shuffle_up_skip_empty(me) ==
    IF me.read_idx > 0
    THEN LET avail == me.write_idx - me.read_idx
         IN IF avail < 0
            THEN [self |-> me, panic |-> TRUE]
            ELSE IF avail > 0 /\ ~(RangeOk(me.read_idx, me.write_idx, Len(me.buf)) /\ avail <= Len(me.buf))
            THEN [self |-> me, panic |-> TRUE]
            ELSE IF avail > 0
            THEN [self |-> [buf |-> copy_within(me.buf, me.read_idx, me.write_idx, 0),
                            read_idx |-> 0,
                            write_idx |-> avail],
                  panic |-> FALSE]
            ELSE [self |-> me, panic |-> FALSE]
    ELSE [self |-> me, panic |-> FALSE]

shuffle_up(me) ==
    IF me.read_idx > 0
    THEN LET avail == me.write_idx - me.read_idx
         IN IF avail < 0
            THEN [self |-> me, panic |-> TRUE]
            ELSE IF avail > 0 /\ ~(RangeOk(me.read_idx, me.write_idx, Len(me.buf)) /\ avail <= Len(me.buf))
            THEN [self |-> me, panic |-> TRUE]
            ELSE [self |-> [buf |-> IF avail > 0
                                    THEN copy_within(me.buf, me.read_idx, me.write_idx, 0)
                                    ELSE me.buf,
                            read_idx |-> 0,
                            write_idx |-> avail],
                  panic |-> FALSE]
    ELSE [self |-> me, panic |-> FALSE]

\* variant: the availability test written >= instead of >
read_one_ge(me) ==
    IF me.write_idx >= me.read_idx
    THEN IF ~IndexOk(me.read_idx, Len(me.buf))
         THEN [self |-> me, ret |-> 0, val |-> 0, panic |-> TRUE]
         ELSE LET v == me.buf[me.read_idx + 1]
                  adv == [me EXCEPT !.read_idx = me.read_idx + 1]
                  sh == IF adv.read_idx > SHUFFLE_THRESHOLD
                        THEN shuffle_up(adv)
                        ELSE [self |-> adv, panic |-> FALSE]
              IN IF sh.panic
                 THEN [self |-> me, ret |-> 0, val |-> 0, panic |-> TRUE]
                 ELSE [self |-> sh.self, ret |-> 1, val |-> v, panic |-> FALSE]
    ELSE [self |-> me, ret |-> 0, val |-> 0, panic |-> FALSE]

\* variant: compaction after every successful read, without the threshold
read_one_always_shuffle(me) ==
    IF me.write_idx > me.read_idx
    THEN IF ~IndexOk(me.read_idx, Len(me.buf))
         THEN [self |-> me, ret |-> 0, val |-> 0, panic |-> TRUE]
         ELSE LET v == me.buf[me.read_idx + 1]
                  adv == [me EXCEPT !.read_idx = me.read_idx + 1]
                  sh == IF adv.read_idx > 0
                        THEN shuffle_up(adv)
                        ELSE [self |-> adv, panic |-> FALSE]
              IN IF sh.panic
                 THEN [self |-> me, ret |-> 0, val |-> 0, panic |-> TRUE]
                 ELSE [self |-> sh.self, ret |-> 1, val |-> v, panic |-> FALSE]
    ELSE [self |-> me, ret |-> 0, val |-> 0, panic |-> FALSE]

\* variant: the threshold off by one (read_idx > 5)
read_one_threshold_5(me) ==
    IF me.write_idx > me.read_idx
    THEN IF ~IndexOk(me.read_idx, Len(me.buf))
         THEN [self |-> me, ret |-> 0, val |-> 0, panic |-> TRUE]
         ELSE LET v == me.buf[me.read_idx + 1]
                  adv == [me EXCEPT !.read_idx = me.read_idx + 1]
                  sh == IF adv.read_idx > SHUFFLE_THRESHOLD + 1
                        THEN shuffle_up(adv)
                        ELSE [self |-> adv, panic |-> FALSE]
              IN IF sh.panic
                 THEN [self |-> me, ret |-> 0, val |-> 0, panic |-> TRUE]
                 ELSE [self |-> sh.self, ret |-> 1, val |-> v, panic |-> FALSE]
    ELSE [self |-> me, ret |-> 0, val |-> 0, panic |-> FALSE]

read_one(me) ==
    IF me.write_idx > me.read_idx
    THEN IF ~IndexOk(me.read_idx, Len(me.buf))
         THEN [self |-> me, ret |-> 0, val |-> 0, panic |-> TRUE]
         ELSE LET v == me.buf[me.read_idx + 1]
                  adv == [me EXCEPT !.read_idx = me.read_idx + 1]
                  sh == IF adv.read_idx > SHUFFLE_THRESHOLD
                        THEN shuffle_up(adv)
                        ELSE [self |-> adv, panic |-> FALSE]
              IN IF sh.panic
                 THEN [self |-> me, ret |-> 0, val |-> 0, panic |-> TRUE]
                 ELSE [self |-> sh.self, ret |-> 1, val |-> v, panic |-> FALSE]
    ELSE [self |-> me, ret |-> 0, val |-> 0, panic |-> FALSE]

\* variant: compaction skipped when nothing was copied
read_many_shuffle_if_read(me, out_buf) ==
    LET avail == me.write_idx - me.read_idx
        abort == [self |-> me, out_buf |-> out_buf, ret |-> 0, panic |-> TRUE]
    IN IF avail < 0 THEN abort
       ELSE IF avail > 0
       THEN LET desired == Len(out_buf)
                read_count == IF desired > avail THEN avail ELSE desired
            IN IF ~(RangeOk(0, read_count, Len(out_buf))
                    /\ RangeOk(me.read_idx, me.read_idx + read_count, Len(me.buf)))
               THEN abort
               ELSE LET adv == [me EXCEPT !.read_idx = me.read_idx + read_count]
                        sh == IF read_count > 0 THEN shuffle_up(adv) ELSE [self |-> adv, panic |-> FALSE]
                    IN IF sh.panic THEN abort
                       ELSE [self |-> sh.self,
                             out_buf |-> CopyFromSlice(out_buf, 0,
                                            Slice(me.buf, me.read_idx, me.read_idx + read_count)),
                             ret |-> read_count,
                             panic |-> FALSE]
       ELSE [self |-> me, out_buf |-> out_buf, ret |-> 0, panic |-> FALSE]

\* variant: the trailing shuffle_up call left out
read_many_no_shuffle(me, out_buf) ==
    LET avail == me.write_idx - me.read_idx
        abort == [self |-> me, out_buf |-> out_buf, ret |-> 0, panic |-> TRUE]
    IN IF avail < 0 THEN abort
       ELSE IF avail > 0
       THEN LET desired == Len(out_buf)
                read_count == IF desired > avail THEN avail ELSE desired
            IN IF ~(RangeOk(0, read_count, Len(out_buf))
                    /\ RangeOk(me.read_idx, me.read_idx + read_count, Len(me.buf)))
               THEN abort
               ELSE LET adv == [me EXCEPT !.read_idx = me.read_idx + read_count]
                        sh == [self |-> adv, panic |-> FALSE]
                    IN IF sh.panic THEN abort
                       ELSE [self |-> sh.self,
                             out_buf |-> CopyFromSlice(out_buf, 0,
                                            Slice(me.buf, me.read_idx, me.read_idx + read_count)),
                             ret |-> read_count,
                             panic |-> FALSE]
       ELSE [self |-> me, out_buf |-> out_buf, ret |-> 0, panic |-> FALSE]

\* variant: shuffle_up called outside the avail > 0 branch, on every call
read_many_always_shuffle(me, out_buf) ==
    LET avail == me.write_idx - me.read_idx
        abort == [self |-> me, out_buf |-> out_buf, ret |-> 0, panic |-> TRUE]
    IN IF avail < 0 THEN abort
       ELSE IF avail > 0
       THEN LET desired == Len(out_buf)
                read_count == IF desired > avail THEN avail ELSE desired
            IN IF ~(RangeOk(0, read_count, Len(out_buf))
                    /\ RangeOk(me.read_idx, me.read_idx + read_count, Len(me.buf)))
               THEN abort
               ELSE LET adv == [me EXCEPT !.read_idx = me.read_idx + read_count]
                        sh == shuffle_up(adv)
                    IN IF sh.panic THEN abort
                       ELSE [self |-> sh.self,
                             out_buf |-> CopyFromSlice(out_buf, 0,
                                            Slice(me.buf, me.read_idx, me.read_idx + read_count)),
                             ret |-> read_count,
                             panic |-> FALSE]
       ELSE LET sh0 == shuffle_up(me)
            IN IF sh0.panic THEN abort
               ELSE [self |-> sh0.self, out_buf |-> out_buf, ret |-> 0, panic |-> FALSE]

\* variant: the copy reads buf[..read_count] instead of buf[read_idx..read_idx + read_count]
read_many_from_start(me, out_buf) ==
    LET avail == me.write_idx - me.read_idx
        abort == [self |-> me, out_buf |-> out_buf, ret |-> 0, panic |-> TRUE]
    IN IF avail < 0 THEN abort
       ELSE IF avail > 0
       THEN LET desired == Len(out_buf)
                read_count == IF desired > avail THEN avail ELSE desired
            IN IF ~(RangeOk(0, read_count, Len(out_buf))
                    /\ RangeOk(0, read_count, Len(me.buf)))
               THEN abort
               ELSE LET adv == [me EXCEPT !.read_idx = me.read_idx + read_count]
                        sh == shuffle_up(adv)
                    IN IF sh.panic THEN abort
                       ELSE [self |-> sh.self,
                             out_buf |-> CopyFromSlice(out_buf, 0, Slice(me.buf, 0, read_count)),
                             ret |-> read_count,
                             panic |-> FALSE]
       ELSE [self |-> me, out_buf |-> out_buf, ret |-> 0, panic |-> FALSE]

read_many(me, out_buf) ==
    LET avail == me.write_idx - me.read_idx
        abort == [self |-> me, out_buf |-> out_buf, ret |-> 0, panic |-> TRUE]
    IN IF avail < 0 THEN abort
       ELSE IF avail > 0
       THEN LET desired == Len(out_buf)
                read_count == IF desired > avail THEN avail ELSE desired
            IN IF ~(RangeOk(0, read_count, Len(out_buf))
                    /\ RangeOk(me.read_idx, me.read_idx + read_count, Len(me.buf)))
               THEN abort
               ELSE LET adv == [me EXCEPT !.read_idx = me.read_idx + read_count]
                        sh == shuffle_up(adv)
                    IN IF sh.panic THEN abort
                       ELSE [self |-> sh.self,
                             out_buf |-> CopyFromSlice(out_buf, 0,
                                            Slice(me.buf, me.read_idx, me.read_idx + read_count)),
                             ret |-> read_count,
                             panic |-> FALSE]
       ELSE [self |-> me, out_buf |-> out_buf, ret |-> 0, panic |-> FALSE]

\* variant: the room test written >= instead of >
push_one_ge(me, d) ==
    IF Len(me.buf) >= me.write_idx
    THEN IF ~IndexOk(me.write_idx, Len(me.buf))
         THEN [self |-> me, ret |-> 0, panic |-> TRUE]
         ELSE [self |-> [me EXCEPT !.buf[me.write_idx + 1] = d,
                                   !.write_idx = me.write_idx + 1],
               ret |-> 1, panic |-> FALSE]
    ELSE [self |-> me, ret |-> 0, panic |-> FALSE]

\* variant: the write_idx increment left out
push_one_no_advance(me, d) ==
    IF Len(me.buf) > me.write_idx
    THEN IF ~IndexOk(me.write_idx, Len(me.buf))
         THEN [self |-> me, ret |-> 0, panic |-> TRUE]
         ELSE [self |-> [me EXCEPT !.buf[me.write_idx + 1] = d],
               ret |-> 1, panic |-> FALSE]
    ELSE [self |-> me, ret |-> 0, panic |-> FALSE]

\* variant: a full tail makes the push compact and retry
push_one_compacting(me, d) ==
    IF Len(me.buf) > me.write_idx
    THEN IF ~IndexOk(me.write_idx, Len(me.buf))
         THEN [self |-> me, ret |-> 0, panic |-> TRUE]
         ELSE [self |-> [me EXCEPT !.buf[me.write_idx + 1] = d,
                                   !.write_idx = me.write_idx + 1],
               ret |-> 1, panic |-> FALSE]
    ELSE LET sh == shuffle_up(me)
         IN IF sh.panic \/ ~IndexOk(sh.self.write_idx, Len(sh.self.buf))
            THEN [self |-> sh.self, ret |-> 0, panic |-> sh.panic]
            ELSE [self |-> [sh.self EXCEPT !.buf[sh.self.write_idx + 1] = d,
                                           !.write_idx = sh.self.write_idx + 1],
                  ret |-> 1, panic |-> FALSE]

push_one(me, d) ==
    IF Len(me.buf) > me.write_idx
    THEN IF ~IndexOk(me.write_idx, Len(me.buf))
         THEN [self |-> me, ret |-> 0, panic |-> TRUE]
         ELSE [self |-> [me EXCEPT !.buf[me.write_idx + 1] = d,
                                   !.write_idx = me.write_idx + 1],
               ret |-> 1, panic |-> FALSE]
    ELSE [self |-> me, ret |-> 0, panic |-> FALSE]

\* variant: copy_count initialised to data.len() instead of 0
push_many_count_init(me, src) ==
    LET vac == Len(me.buf) - me.write_idx
        abort == [self |-> me, ret |-> 0, panic |-> TRUE]
    IN IF vac < 0 THEN abort
       ELSE IF vac > 0
       THEN LET desired == Len(src)
                copy_count == IF desired < vac THEN desired ELSE vac
            IN IF ~(RangeOk(me.write_idx, me.write_idx + copy_count, Len(me.buf))
                    /\ RangeOk(0, copy_count, Len(src)))
               THEN abort
               ELSE [self |-> [me EXCEPT !.buf = CopyFromSlice(me.buf, me.write_idx,
                                                              Slice(src, 0, copy_count)),
                                         !.write_idx = me.write_idx + copy_count],
                     ret |-> copy_count, panic |-> FALSE]
       ELSE [self |-> me, ret |-> Len(src), panic |-> FALSE]

\* variant: write_idx advanced by data.len() instead of copy_count
push_many_adv_desired(me, src) ==
    LET vac == Len(me.buf) - me.write_idx
        abort == [self |-> me, ret |-> 0, panic |-> TRUE]
    IN IF vac < 0 THEN abort
       ELSE IF vac > 0
       THEN LET desired == Len(src)
                copy_count == IF desired < vac THEN desired ELSE vac
            IN IF ~(RangeOk(me.write_idx, me.write_idx + copy_count, Len(me.buf))
                    /\ RangeOk(0, copy_count, Len(src)))
               THEN abort
               ELSE [self |-> [me EXCEPT !.buf = CopyFromSlice(me.buf, me.write_idx,
                                                              Slice(src, 0, copy_count)),
                                         !.write_idx = me.write_idx + desired],
                     ret |-> copy_count, panic |-> FALSE]
       ELSE [self |-> me, ret |-> 0, panic |-> FALSE]

push_many(me, src) ==
    LET vac == Len(me.buf) - me.write_idx
        abort == [self |-> me, ret |-> 0, panic |-> TRUE]
    IN IF vac < 0 THEN abort
       ELSE IF vac > 0
       THEN LET desired == Len(src)
                copy_count == IF desired < vac THEN desired ELSE vac
            IN IF ~(RangeOk(me.write_idx, me.write_idx + copy_count, Len(me.buf))
                    /\ RangeOk(0, copy_count, Len(src)))
               THEN abort
               ELSE [self |-> [me EXCEPT !.buf = CopyFromSlice(me.buf, me.write_idx,
                                                              Slice(src, 0, copy_count)),
                                         !.write_idx = me.write_idx + copy_count],
                     ret |-> copy_count, panic |-> FALSE]
       ELSE [self |-> me, ret |-> 0, panic |-> FALSE]

\* ---- the abstract FIFO run side by side -----------------------------------
Drop(s, n) == SubSeq(s, n + 1, Len(s))
Take(s, n) == SubSeq(s, 1, n)

\* th holds the calling threads of the multi-threaded use (below); the
\* single-caller specifications have none
NoThreads == [kind |-> "serial"]

\* ---- state machine ----------------------------------------------------------
Init ==
    /\ SIZE \in Capacities
    /\ buf = default(SIZE).buf
    /\ read_idx = default(SIZE).read_idx
    /\ write_idx = default(SIZE).write_idx
    /\ op = "default"
    /\ ret = 0
    /\ val = 0
    /\ data = <<>>
    /\ out = <<>>
    /\ panicked = FALSE
    /\ fifo = <<>>
    /\ refused = FALSE
    /\ th = NoThreads

\* the effect of one call on the object; a panicking call returns nothing
Store(r) ==
    /\ buf' = r.self.buf
    /\ read_idx' = r.self.read_idx
    /\ write_idx' = r.self.write_idx
    /\ panicked' = r.panic
    /\ UNCHANGED <<SIZE, th>>

PushOne ==
    /\ ~panicked
    /\ \E d \in Byte :
         LET r == push_one(self, d)
         IN /\ Store(r)
            /\ op' = "push_one"
            /\ ret' = r.ret
            /\ val' = 0
            /\ data' = <<d>>
            /\ out' = <<>>
            /\ fifo' = fifo \o Take(<<d>>, r.ret)
            /\ refused' = (~r.panic /\ r.ret = 0)

PushMany ==
    /\ ~panicked
    /\ \E src \in DataArgs :
         LET r == push_many(self, src)
         IN /\ Store(r)
            /\ op' = "push_many"
            /\ ret' = r.ret
            /\ val' = 0
            /\ data' = src
            /\ out' = <<>>
            /\ fifo' = fifo \o Take(src, r.ret)
            /\ refused' = FALSE

ReadOne ==
    /\ ~panicked
    /\ LET r == read_one(self)
       IN /\ Store(r)
          /\ op' = "read_one"
          /\ ret' = r.ret
          /\ val' = r.val
          /\ data' = <<>>
          /\ out' = <<>>
          /\ fifo' = Drop(fifo, r.ret)
          /\ UNCHANGED refused

ReadMany ==
    /\ ~panicked
    /\ \E o \in OutArgs :
         LET r == read_many(self, o)
         IN /\ Store(r)
            /\ op' = "read_many"
            /\ ret' = r.ret
            /\ val' = 0
            /\ data' = <<>>
            /\ out' = r.out_buf
            /\ fifo' = Drop(fifo, r.ret)
            /\ UNCHANGED refused

Available ==
    /\ ~panicked
    /\ op' = "available"
    /\ panicked' = (write_idx < read_idx)
    /\ ret' = IF write_idx < read_idx THEN 0 ELSE available(self)
    /\ val' = 0
    /\ data' = <<>>
    /\ out' = <<>>
    /\ UNCHANGED <<SIZE, buf, read_idx, write_idx, fifo, refused, th>>

Vacant ==
    /\ ~panicked
    /\ op' = "vacant"
    /\ panicked' = (Len(buf) < write_idx)
    /\ ret' = IF Len(buf) < write_idx THEN 0 ELSE vacant(self)
    /\ val' = 0
    /\ data' = <<>>
    /\ out' = <<>>
    /\ UNCHANGED <<SIZE, buf, read_idx, write_idx, fifo, refused, th>>

Next ==
    \/ PushOne
    \/ PushMany
    \/ ReadOne
    \/ ReadMany
    \/ Available
    \/ Vacant

Spec == Init /\ [][Next]_vars

\* ---- shuffle_up on its own ------------------------------------------------------
\* The objects shuffle_up is called on: read_one (line 34) and read_many
\* (line 57) call it after advancing read_idx, on a buffer that held at least
\* one unread byte, so write_idx >= 1 and read_idx is anywhere in 0..write_idx.
InitShuffle ==
    /\ SIZE \in Capacities
    /\ buf \in [1..SIZE -> Byte]
    /\ write_idx \in 1..SIZE
    /\ read_idx \in 0..write_idx
    /\ op = "default"
    /\ ret = 0
    /\ val = 0
    /\ data = <<>>
    /\ out = <<>>
    /\ panicked = FALSE
    /\ fifo = Slice(buf, read_idx, write_idx)
    /\ refused = FALSE
    /\ th = NoThreads

\* one call of shuffle_up; ret keeps the read_idx the call started from
ShuffleUp ==
    /\ ~panicked
    /\ Store(shuffle_up(self))
    /\ op' = "shuffle_up"
    /\ ret' = read_idx
    /\ UNCHANGED <<val, data, out, fifo, refused>>

NextShuffle == ShuffleUp

SpecShuffle == InitShuffle /\ [][NextShuffle]_vars

\* ---- two threads on one buffer ------------------------------------------------
\* tests::multithread_write_read shares one ShuffleBuf between a thread that
\* calls push_one and a thread that calls read_one, through a raw pointer and
\* with no lock.  Here every load and every store of read_idx, write_idx and
\* buf is a step of its own, and the steps of the two threads interleave
\* freely (th.locked = FALSE), or each call runs under one external lock held
\* from its first step to its return (th.locked = TRUE).  Each mention of
\* self.read_idx / self.write_idx in the source is one load; += is a load and
\* a store.  The second configuration has two threads calling read_one.
Threads == {1, 2}

\* the bytes the producer pushes; the value read at line 31 plays no part in
\* what follows, so the threads do not keep it
PushedByte == 1

\* line 30: the availability test on the two loaded cursors
\* variant: the availability test written >= instead of >
has_data_ge(w, r) == w >= r

has_data(w, r) == w > r

InitThreads ==
    /\ SIZE = MaxCap
    /\ \E roles \in {<<"producer", "consumer">>, <<"consumer", "consumer">>},
          lk \in BOOLEAN, k \in 0..SIZE :
          /\ (roles[1] = "producer") = (k = 0)
          /\ buf = [i \in 1..SIZE |-> IF i <= k THEN PushedByte ELSE 0]
          /\ write_idx = k
          /\ th = [kind |-> "threads", locked |-> lk, lock |-> 0, role |-> roles,
                   pc |-> <<"idle", "idle">>,
                   r |-> <<0, 0>>, w |-> <<0, 0>>, avail |-> <<0, 0>>,
                   calls |-> <<0, 0>>, pushed |-> 0, reads |-> <<0, 0>>,
                   fill |-> k, n |-> IF roles[1] = "producer" THEN SIZE ELSE k]
    /\ read_idx = 0
    /\ op = "default"
    /\ ret = 0
    /\ val = 0
    /\ data = <<>>
    /\ out = <<>>
    /\ panicked = FALSE
    /\ fifo = <<>>
    /\ refused = FALSE

Frame == UNCHANGED <<SIZE, op, ret, val, data, out, fifo, refused>>

At(t, label) == ~panicked /\ th.kind = "threads" /\ th.pc[t] = label

\* a step that only loads into the thread's locals
Local(t, next) ==
    /\ th' = [next EXCEPT !.pc[t] = next.pc[t]]
    /\ UNCHANGED <<buf, read_idx, write_idx, panicked>>
    /\ Frame

\* a failed bounds or overflow check: the thread panics with the object as it is
Panic ==
    /\ panicked' = TRUE
    /\ UNCHANGED <<buf, read_idx, write_idx, th>>
    /\ Frame

\* a thread starts its next call (and takes the lock when there is one); as in
\* the test, each thread makes a fixed number of calls, here th.n
T_Call ==
    \E t \in Threads :
        /\ At(t, "idle")
        /\ th.locked => th.lock = 0
        /\ th.calls[t] < th.n
        /\ Local(t, [th EXCEPT !.pc[t] = IF th.role[t] = "producer" THEN "po_86" ELSE "ro_30a",
                               !.lock = IF th.locked THEN t ELSE 0])

\* read_one, line 30: if self.write_idx > self.read_idx
T_Ro30a ==
    \E t \in Threads :
        /\ At(t, "ro_30a")
        /\ Local(t, [th EXCEPT !.pc[t] = "ro_30b", !.w[t] = write_idx])

T_Ro30b ==
    \E t \in Threads :
        /\ At(t, "ro_30b")
        /\ Local(t, [th EXCEPT !.pc[t] = IF has_data(th.w[t], read_idx) THEN "ro_31a" ELSE "ret0",
                               !.r[t] = read_idx])

\* line 31: let val = self.buf[self.read_idx]
T_Ro31a ==
    \E t \in Threads :
        /\ At(t, "ro_31a")
        /\ Local(t, [th EXCEPT !.pc[t] = "ro_31b", !.r[t] = read_idx])

T_Ro31b ==
    \E t \in Threads :
        /\ At(t, "ro_31b")
        /\ IF IndexOk(th.r[t], Len(buf))
           THEN Local(t, [th EXCEPT !.pc[t] = "ro_32a"])
           ELSE Panic

\* line 32: self.read_idx += 1
T_Ro32a ==
    \E t \in Threads :
        /\ At(t, "ro_32a")
        /\ Local(t, [th EXCEPT !.pc[t] = "ro_32b", !.r[t] = read_idx])

T_Ro32b ==
    \E t \in Threads :
        /\ At(t, "ro_32b")
        /\ read_idx' = th.r[t] + 1
        /\ th' = [th EXCEPT !.pc[t] = "ro_33"]
        /\ UNCHANGED <<buf, write_idx, panicked>>
        /\ Frame

\* line 33: if self.read_idx > 4
T_Ro33 ==
    \E t \in Threads :
        /\ At(t, "ro_33")
        /\ Local(t, [th EXCEPT !.pc[t] = IF read_idx > SHUFFLE_THRESHOLD THEN "su_74" ELSE "ret1",
                               !.r[t] = read_idx])

\* shuffle_up, line 74: if self.read_idx > 0
T_Su74 ==
    \E t \in Threads :
        /\ At(t, "su_74")
        /\ Local(t, [th EXCEPT !.pc[t] = IF read_idx > 0 THEN "su_75a" ELSE "ret1",
                               !.r[t] = read_idx])

\* line 75: let avail = self.write_idx - self.read_idx; line 76: if avail > 0
T_Su75a ==
    \E t \in Threads :
        /\ At(t, "su_75a")
        /\ Local(t, [th EXCEPT !.pc[t] = "su_75b", !.w[t] = write_idx])

T_Su75b ==
    \E t \in Threads :
        /\ At(t, "su_75b")
        /\ IF th.w[t] - read_idx >= 0
           THEN Local(t, [th EXCEPT !.pc[t] = IF th.w[t] - read_idx > 0 THEN "su_77a" ELSE "su_79",
                                    !.r[t] = read_idx,
                                    !.avail[t] = th.w[t] - read_idx])
           ELSE Panic

\* line 77: self.buf.copy_within(self.read_idx..self.write_idx, 0)
T_Su77a ==
    \E t \in Threads :
        /\ At(t, "su_77a")
        /\ Local(t, [th EXCEPT !.pc[t] = "su_77b", !.r[t] = read_idx])

T_Su77b ==
    \E t \in Threads :
        /\ At(t, "su_77b")
        /\ Local(t, [th EXCEPT !.pc[t] = "su_77c", !.w[t] = write_idx])

T_Su77c ==
    \E t \in Threads :
        /\ At(t, "su_77c")
        /\ IF RangeOk(th.r[t], th.w[t], Len(buf))
           THEN /\ buf' = copy_within(buf, th.r[t], th.w[t], 0)
                /\ th' = [th EXCEPT !.pc[t] = "su_79"]
                /\ UNCHANGED <<read_idx, write_idx, panicked>>
                /\ Frame
           ELSE Panic

\* line 79: self.read_idx = 0
T_Su79 ==
    \E t \in Threads :
        /\ At(t, "su_79")
        /\ read_idx' = 0
        /\ th' = [th EXCEPT !.pc[t] = "su_80"]
        /\ UNCHANGED <<buf, write_idx, panicked>>
        /\ Frame

\* line 80: self.write_idx = avail
T_Su80 ==
    \E t \in Threads :
        /\ At(t, "su_80")
        /\ write_idx' = th.avail[t]
        /\ th' = [th EXCEPT !.pc[t] = "ret1"]
        /\ UNCHANGED <<buf, read_idx, panicked>>
        /\ Frame

\* push_one, line 86: if self.buf.len() > self.write_idx
T_Po86 ==
    \E t \in Threads :
        /\ At(t, "po_86")
        /\ Local(t, [th EXCEPT !.pc[t] = IF Len(buf) > write_idx THEN "po_87a" ELSE "ret0",
                               !.w[t] = write_idx])

\* line 87: self.buf[self.write_idx] = data
T_Po87a ==
    \E t \in Threads :
        /\ At(t, "po_87a")
        /\ Local(t, [th EXCEPT !.pc[t] = "po_87b", !.w[t] = write_idx])

T_Po87b ==
    \E t \in Threads :
        /\ At(t, "po_87b")
        /\ IF IndexOk(th.w[t], Len(buf))
           THEN /\ buf' = [buf EXCEPT ![th.w[t] + 1] = PushedByte]
                /\ th' = [th EXCEPT !.pc[t] = "po_88a"]
                /\ UNCHANGED <<read_idx, write_idx, panicked>>
                /\ Frame
           ELSE Panic

\* line 88: self.write_idx += 1
T_Po88a ==
    \E t \in Threads :
        /\ At(t, "po_88a")
        /\ Local(t, [th EXCEPT !.pc[t] = "po_88b", !.w[t] = write_idx])

T_Po88b ==
    \E t \in Threads :
        /\ At(t, "po_88b")
        /\ write_idx' = th.w[t] + 1
        /\ th' = [th EXCEPT !.pc[t] = "ret1"]
        /\ UNCHANGED <<buf, read_idx, panicked>>
        /\ Frame

\* the call returns its count (0 or 1) to the thread, which adds it up as the
\* test does; the call's locals are gone and the lock is released
T_Return ==
    \E t \in Threads, c \in {0, 1} :
        /\ At(t, IF c = 1 THEN "ret1" ELSE "ret0")
        /\ Local(t, [th EXCEPT !.pc[t] = "idle",
                               !.lock = 0,
                               !.r[t] = 0,
                               !.w[t] = 0,
                               !.avail[t] = 0,
                               !.calls[t] = @ + 1,
                               !.pushed = IF th.role[t] = "producer" THEN @ + c ELSE @,
                               !.reads[t] = IF th.role[t] = "consumer" THEN @ + c ELSE @])

NextThreads ==
    \/ T_Call
    \/ T_Ro30a
    \/ T_Ro30b
    \/ T_Ro31a
    \/ T_Ro31b
    \/ T_Ro32a
    \/ T_Ro32b
    \/ T_Ro33
    \/ T_Su74
    \/ T_Su75a
    \/ T_Su75b
    \/ T_Su77a
    \/ T_Su77b
    \/ T_Su77c
    \/ T_Su79
    \/ T_Su80
    \/ T_Po86
    \/ T_Po87a
    \/ T_Po87b
    \/ T_Po88a
    \/ T_Po88b
    \/ T_Return

SpecThreads == InitThreads /\ [][NextThreads]_vars

\* ---- properties ---------------------------------------------------------------
Min(a, b) == IF a < b THEN a ELSE b

\* C1: after every call, for every capacity and every argument length,
\* 0 <= read_idx <= write_idx <= capacity.
C1_IndexInvariant ==
    /\ 0 <= read_idx
    /\ read_idx <= write_idx
    /\ write_idx <= SIZE

\* a read_one that crossed the threshold and compacted a non-empty window
C1_Witness ==
    /\ op = "read_one"
    /\ ret = 1
    /\ read_idx = 0
    /\ write_idx > 0
    /\ refused

\* C2: the unread window buf[read_idx..write_idx] always equals the abstract
\* FIFO, available() is its length, and whatever read_one / read_many hand
\* back is the head of the abstract FIFO, in order.
C2_WindowIsFifo ==
    /\ available(self) = Len(fifo)
    /\ read_idx <= write_idx => Slice(buf, read_idx, write_idx) = fifo

C2_ReadsTakeHead ==
    /\ (op' = "read_one" /\ ret' = 1) => (Len(fifo) >= 1 /\ val' = Head(fifo))
    /\ op' = "read_many" => (ret' <= Len(fifo) /\ ret' <= Len(out')
                              /\ Take(out', ret') = Take(fifo, ret'))

C2_Fifo == [](C2_WindowIsFifo) /\ [][C2_ReadsTakeHead]_vars

\* a compaction moved an overlapping window holding two different bytes
C2_Witness ==
    /\ op = "read_many"
    /\ ret = 1
    /\ Len(fifo) >= 2
    /\ fifo[1] # fifo[2]
    /\ read_idx = 0

\* C3: push_many returns min(len(data), vacant() before the call), stores that
\* many leading bytes of data at buf[write_idx..] and advances write_idx by the
\* returned count; an oversized push into a fresh buffer fills it exactly.
C3_PushManyStep ==
    op' = "push_many" =>
        /\ ret' = Min(Len(data'), vacant(self))
        /\ write_idx' = write_idx + ret'
        /\ write_idx' <= Len(buf') => Slice(buf', write_idx, write_idx') = Take(data', ret')
        /\ (op = "default" /\ Len(data') > SIZE) =>
               (ret' = SIZE /\ available(self') = SIZE /\ vacant(self') = 0)

C3_PushMany == [][C3_PushManyStep]_vars

\* an oversized push filled a buffer that held nothing else
C3_Witness ==
    /\ op = "push_many"
    /\ SIZE > 0
    /\ Len(data) > SIZE
    /\ ret = SIZE
    /\ fifo = Take(data, ret)
    /\ vacant(self) = 0

\* C4: read_many returns min(len(out), available() before the call), copies
\* that many oldest unread bytes to the front of out and lowers available() by
\* the returned count.
C4_ReadManyStep ==
    op' = "read_many" =>
        /\ ret' = Min(Len(out'), available(self))
        /\ ret' <= Len(out')
        /\ read_idx + ret' <= Len(buf) =>
               Take(out', ret') = Slice(buf, read_idx, read_idx + ret')
        /\ available(self') = available(self) - ret'

C4_ReadMany == [][C4_ReadManyStep]_vars

\* a partial read_many of two different bytes that left data behind
C4_Witness ==
    /\ op = "read_many"
    /\ ret >= 2
    /\ out[1] # out[2]
    /\ Len(fifo) > 0

C5_CompactsStep ==
    op' = "read_many" =>
        IF available(self) > 0
        THEN read_idx' = 0 /\ vacant(self') = SIZE - available(self')
        ELSE read_idx' = read_idx

C6_VacantAfterRead ==
    (op = "read_many" /\ ret > 0) => vacant(self) = SIZE - available(self)

C6_PushAfterReadStep ==
    (op = "read_many" /\ ret > 0 /\ op' = "push_many") =>
        ret' = Min(Len(data'), SIZE - available(self))

C6_CompactionFreesTail == [](C6_VacantAfterRead) /\ [][C6_PushAfterReadStep]_vars

\* a full buffer, then read_many of k bytes: exactly k slots are vacant again
C6_Witness ==
    /\ op = "read_many"
    /\ ret > 0
    /\ refused
    /\ vacant(self) = ret
    /\ available(self) = SIZE - ret
    /\ available(self) > 0

\* C7 as stated: capacity >= 1, a push_one was refused, the consumer read
\* until available() == 0; then the next push_one returns 1.
C7_RecoverStep ==
    (SIZE >= 1 /\ refused /\ available(self) = 0 /\ op' = "push_one") => ret' = 1

C7_RefusedPushRecovers == [][C7_RecoverStep]_vars

\* C8: with available() == 0, read_one returns (0, 0), read_many returns 0 for
\* any out length, and neither changes read_idx, write_idx or the bytes.
C8_EmptyReadStep ==
    (available(self) = 0 /\ op' \in {"read_one", "read_many"}) =>
        /\ ret' = 0
        /\ val' = 0
        /\ buf' = buf
        /\ read_idx' = read_idx
        /\ write_idx' = write_idx

C8_IdempotentEmptiness == [][C8_EmptyReadStep]_vars

\* a read_many on a drained buffer whose cursors are not at 0
C8_Witness ==
    /\ op = "read_many"
    /\ Len(out) > 0
    /\ ret = 0
    /\ read_idx > 0
    /\ read_idx = write_idx

\* C9: with capacity 0 every push and every read returns 0, and available()
\* and vacant() are 0 in every reachable state.
C9_ZeroCapacity ==
    SIZE = 0 =>
        /\ op \in {"push_one", "push_many", "read_one", "read_many"} => ret = 0
        /\ available(self) = 0
        /\ vacant(self) = 0

\* a non-empty push_many into the zero-capacity buffer
C9_Witness ==
    /\ SIZE = 0
    /\ op = "push_many"
    /\ Len(data) > 0
    /\ ret = 0

\* C10: no call panics: no index or slice range leaves its array and no
\* subtraction underflows, for every capacity and argument length.
C10_NoPanic == ~panicked

\* a read_many with an out longer than the capacity emptied a full buffer
C10_Witness ==
    /\ op = "read_many"
    /\ SIZE > 0
    /\ Len(out) > SIZE
    /\ ret = SIZE
    /\ ~panicked

\* C11: push_one returns 1 exactly when write_idx < capacity before the call,
\* then stores the byte at buf[write_idx] and increments write_idx; otherwise
\* it returns 0 and changes nothing.  push_many with vacant() == 0 or with
\* empty data returns 0 and changes nothing.
C11_PushStep ==
    /\ op' = "push_one" =>
          IF write_idx < SIZE
          THEN /\ ret' = 1
               /\ write_idx' = write_idx + 1
               /\ read_idx' = read_idx
               /\ buf' = [buf EXCEPT ![write_idx + 1] = data'[1]]
          ELSE /\ ret' = 0
               /\ UNCHANGED <<buf, read_idx, write_idx>>
    /\ (op' = "push_many" /\ (vacant(self) = 0 \/ Len(data') = 0)) =>
          /\ ret' = 0
          /\ UNCHANGED <<buf, read_idx, write_idx>>

C11_FullIsCounted == [][C11_PushStep]_vars

\* a push_one refused while unread bytes and a read-away head both exist
C11_Witness ==
    /\ op = "push_one"
    /\ ret = 0
    /\ write_idx = SIZE
    /\ read_idx > 0
    /\ available(self) > 0
    /\ data = <<1>>

\* C14: a push leaves read_idx and the unread bytes buf[read_idx..write_idx]
\* as they were and never increases vacant(); only read_one and read_many
\* change read_idx or move stored bytes.
C14_PushStep ==
    /\ op' \in {"push_one", "push_many"} =>
          /\ read_idx' = read_idx
          /\ Slice(buf', read_idx, write_idx) = Slice(buf, read_idx, write_idx)
          /\ vacant(self') <= vacant(self)
    /\ (read_idx' # read_idx \/ Slice(buf', 0, write_idx) # Slice(buf, 0, write_idx)) =>
          op' \in {"read_one", "read_many"}

C14_PushNeverCompacts == [][C14_PushStep]_vars

\* a push_many cut short by the tail although read-away bytes lie at the head
C14_Witness ==
    /\ op = "push_many"
    /\ ret > 0
    /\ ret < Len(data)
    /\ read_idx > 0
    /\ vacant(self) = 0

\* C15: with available() > 0 read_one returns (1, buf[read_idx]) and
\* increments read_idx; it compacts exactly when the incremented read_idx is
\* greater than 4, and otherwise leaves write_idx, the bytes and vacant() alone.
C15_ReadOneStep ==
    (op' = "read_one" /\ available(self) > 0) =>
        /\ ret' = 1
        /\ val' = buf[read_idx + 1]
        /\ IF read_idx + 1 > 4
           THEN /\ read_idx' = 0
                /\ write_idx' = write_idx - (read_idx + 1)
                /\ Slice(buf', 0, write_idx') = Slice(buf, read_idx + 1, write_idx)
           ELSE /\ read_idx' = read_idx + 1
                /\ write_idx' = write_idx
                /\ buf' = buf
                /\ vacant(self') = vacant(self)

C15_ReadOnePolicy == [][C15_ReadOneStep]_vars

\* the fourth read_one in a row: read_idx == 4 and still no compaction
C15_Witness ==
    /\ op = "read_one"
    /\ ret = 1
    /\ read_idx = 4
    /\ write_idx = SIZE
    /\ available(self) > 0

\* C17: for every capacity >= 2, filling the buffer and then one successful
\* read_one gives a state with vacant() == 0 in which push_one returns 0
\* although available() < capacity; vacant() is capacity - write_idx.
C17_TailFullStep ==
    /\ (SIZE >= 2 /\ read_idx = 0 /\ write_idx = SIZE /\ op' = "read_one") =>
          /\ ret' = 1
          /\ vacant(self') = 0
          /\ available(self') = SIZE - 1
          /\ \A d \in Byte : push_one(self', d).ret = 0
    /\ op' = "vacant" => ret' = SIZE - write_idx
    /\ (op' = "push_one" /\ ret' = 0) => vacant(self) = 0

C17_TailFullness == [][C17_TailFullStep]_vars

\* push_one refused at vacant() == 0 with one byte read away and no other gap
C17_Witness ==
    /\ SIZE >= 2
    /\ op = "push_one"
    /\ ret = 0
    /\ vacant(self) = 0
    /\ read_idx = 1
    /\ available(self) = SIZE - 1

\* C18: read_idx <= 4 in every reachable state, so the uncompacted space
\* capacity - available() - vacant() equals read_idx and is at most 4; five
\* successful read_one calls in a row from read_idx == 0 end with read_idx == 0.
FiveReads(me) ==
    LET r1 == read_one(me)
        r2 == read_one(r1.self)
        r3 == read_one(r2.self)
        r4 == read_one(r3.self)
        r5 == read_one(r4.self)
    IN [ok |-> r1.ret = 1 /\ r2.ret = 1 /\ r3.ret = 1 /\ r4.ret = 1 /\ r5.ret = 1,
        self |-> r5.self]

C18_BoundedDeadZone ==
    /\ read_idx <= 4
    /\ SIZE - available(self) - vacant(self) = read_idx
    /\ SIZE - available(self) - vacant(self) <= 4
    /\ (read_idx = 0 /\ FiveReads(self).ok) => FiveReads(self).self.read_idx = 0

\* the fifth read_one in a row compacted and left bytes behind
C18_Witness ==
    /\ op = "read_one"
    /\ ret = 1
    /\ read_idx = 0
    /\ SIZE >= 6
    /\ vacant(self) = 5
    /\ available(self) = SIZE - 5

\* C16: shuffle_up with read_idx > 0 moves buf[read_idx..write_idx] to
\* buf[0..avail] (overlap or not), sets read_idx = 0 and write_idx = avail
\* (both 0 when avail == 0); with read_idx == 0 it changes nothing.  In every
\* case available() and the unread bytes are the same before and after.
C16_ShuffleStep ==
    op' = "shuffle_up" =>
        /\ ~panicked'
        /\ IF read_idx > 0
           THEN /\ read_idx' = 0
                /\ write_idx' = write_idx - read_idx
                /\ Slice(buf', 0, write_idx - read_idx) = Slice(buf, read_idx, write_idx)
                /\ write_idx = read_idx => (read_idx' = 0 /\ write_idx' = 0)
           ELSE UNCHANGED <<buf, read_idx, write_idx>>
        /\ available(self') = available(self)
        /\ Slice(buf', read_idx', write_idx') = Slice(buf, read_idx, write_idx)

C16_ShuffleUp == [][C16_ShuffleStep]_vars

\* a window of two different bytes was moved onto itself (source and
\* destination overlap: it started at read_idx == 1)
C16_Witness ==
    /\ op = "shuffle_up"
    /\ ret = 1
    /\ read_idx = 0
    /\ write_idx >= 2
    /\ Slice(buf, 0, write_idx) = fifo
    /\ fifo[1] # fifo[2]

\* C12 as stated: one thread calls push_one n times (n <= capacity), another
\* calls read_one, with no lock; once the producer has finished and the
\* buffer is drained, the successful read_one calls number exactly n.
C12_NothingLost ==
    (/\ th.kind = "threads"
     /\ ~th.locked
     /\ th.role[1] = "producer"
     /\ th.calls[1] = th.n
     /\ th.pc = <<"idle", "idle">>
     /\ write_idx = read_idx)
        => th.reads[2] = th.n

\* C13: under one external lock held for each whole call, two threads calling
\* read_one never reach read_idx > write_idx, never deliver more bytes than
\* were stored, and never panic; without the lock two readers can both pass
\* the availability test on the same byte and reach read_idx > write_idx.
C13_LockedReadersSafe ==
    (th.kind = "threads" /\ th.locked) =>
        /\ read_idx <= write_idx
        /\ th.reads[1] + th.reads[2] <= th.fill + th.pushed
        /\ ~panicked

\* no lock, two readers, one byte stored: both passed the test and both
\* advanced read_idx, which is now beyond write_idx
C13_Witness ==
    /\ th.kind = "threads"
    /\ ~th.locked
    /\ th.role = <<"consumer", "consumer">>
    /\ th.fill = 1
    /\ th.pc = <<"ro_33", "ro_33">>
    /\ read_idx > write_idx

====
